---- MODULE Spec2Model ----
(***************************************************************************)
(* Model of the local agent (src/local-agent): the dispatch loop of        *)
(* Agent.run, the reply parsing and tool dispatch of Agent.chat_completion,*)
(* the prompt assembly of Agent._build_prompt and the memory manager       *)
(* Agent._handle_memory.  Python strings are sequences of one-character    *)
(* strings, so that strip(), lower(), capitalize(), the tool-call regular  *)
(* expression and string formatting are computed character by character.   *)
(***************************************************************************)
EXTENDS Integers, Sequences, FiniteSets, TLC

(***************************************************************************)
(* Bounds of the model.                                                    *)
(***************************************************************************)
\* largest configured SHORT_MEMORY_SIZE explored (W ranges over 0..MaxW)
MaxW == 3
\* number of inputs that start a turn in one session
MaxTurns == 2
\* longest model reply of the exhaustive enumeration for the reply parser
MaxReplyLen == 5
\* number of chat_completion calls made on one ModelInterface
MaxCalls == 2
\* number of requests one HTTP service answers
MaxRequests == 2

(***************************************************************************)
(* Characters and the str methods the agent uses.                          *)
(***************************************************************************)
\* characters str.strip() removes (the ASCII whitespace of the model's alphabet)
Whitespace == {" ", "\n", "\t"}

UpperLetters ==
    <<"A","B","C","D","E","F","G","H","I","J","K","L","M",
      "N","O","P","Q","R","S","T","U","V","W","X","Y","Z">>

LowerLetters ==
    <<"a","b","c","d","e","f","g","h","i","j","k","l","m",
      "n","o","p","q","r","s","t","u","v","w","x","y","z">>

Digits == {"0","1","2","3","4","5","6","7","8","9"}

Range(f) == {f[i] : i \in DOMAIN f}

UpperSet == Range(UpperLetters)

LowerSet == Range(LowerLetters)

\* the characters the regular expression class \w matches
WordChars == UpperSet \cup LowerSet \cup Digits \cup {"_"}

LowerChar(c) ==
    IF c \in UpperSet
    THEN LowerLetters[CHOOSE i \in DOMAIN UpperLetters : UpperLetters[i] = c]
    ELSE c

UpperChar(c) ==
    IF c \in LowerSet
    THEN UpperLetters[CHOOSE i \in DOMAIN LowerLetters : LowerLetters[i] = c]
    ELSE c

\* str.lower()
Lower(s) == [i \in 1..Len(s) |-> LowerChar(s[i])]

\* str.capitalize(): first character upper-cased, the rest lower-cased
Capitalize(s) == [i \in 1..Len(s) |-> IF i = 1 THEN UpperChar(s[i]) ELSE LowerChar(s[i])]

RECURSIVE LStrip(_)
LStrip(s) == IF s # <<>> /\ Head(s) \in Whitespace THEN LStrip(Tail(s)) ELSE s

RECURSIVE RStrip(_)
RStrip(s) ==
    IF s # <<>> /\ s[Len(s)] \in Whitespace THEN RStrip(SubSeq(s, 1, Len(s) - 1)) ELSE s

\* str.strip()
Strip(s) == RStrip(LStrip(s))

RECURSIVE Join(_, _)
\* sep.join(parts)
Join(sep, parts) ==
    IF parts = <<>> THEN <<>>
    ELSE IF Len(parts) = 1 THEN parts[1]
    ELSE parts[1] \o sep \o Join(sep, Tail(parts))

(***************************************************************************)
(* String literals of the source.                                          *)
(***************************************************************************)

\* agent.py:49
file_header ==
    <<"A","g","e","n","t"," ","T","r","a","n","s","c","r","i","p","t","\n",
      "=","=","=","=","=","=","=","=","=","=","=","=","=","=","=","=","\n",
      "\n">>

\* agent.py:50
file_footer ==
    <<"=","=","=","=","=","=","=","=","=","=","=","=","=","=","=","=","\n",
      "\n">>

\* agent.py:59
StrExit ==
    <<"e","x","i","t">>

\* agent.py:59
StrQuit ==
    <<"q","u","i","t">>

\* agent.py:67
YouPrefix ==
    <<"Y","o","u",":"," ">>

\* agent.py:68
AgentPrefix ==
    <<"A","g","e","n","t",":"," ">>

\* agent.py:67-68, 178-182
BlankLine ==
    <<"\n","\n">>

\* agent.py:168, 171
Newline ==
    <<"\n">>

\* agent.py:141, 169, 172
ColonSpace ==
    <<":"," ">>

\* agent.py:129
RoleSystem ==
    <<"s","y","s","t","e","m">>

\* agent.py:144, 158
RoleUser ==
    <<"u","s","e","r">>

\* agent.py:159
RoleAssistant ==
    <<"a","s","s","i","s","t","a","n","t">>

\* agent.py:133
LongTermPrefix ==
    <<"L","o","n","g","-","T","e","r","m"," ","M","e","m","o","r","y",":",
      "\n">>

\* agent.py:137
RecentMarker ==
    <<"R","e","c","e","n","t"," ","I","n","t","e","r","a","c","t","i","o",
      "n","s",":">>

\* agent.py:176-177
SummaryHead ==
    <<"U","p","d","a","t","e"," ","t","h","e"," ","l","o","n","g","-","t",
      "e","r","m"," ","m","e","m","o","r","y"," ","s","u","m","m","a","r",
      "y"," ","f","o","r"," ","t","h","i","s"," ","a","g","e","n","t",".",
      "\n","P","r","e","v","i","o","u","s"," ","s","u","m","m","a","r","y",
      ":","\n">>

\* agent.py:179
SummaryDropped ==
    <<"M","e","s","s","a","g","e","s"," ","t","h","a","t"," ","j","u","s",
      "t"," ","d","r","o","p","p","e","d"," ","o","f","f"," ","s","h","o",
      "r","t","-","t","e","r","m"," ","m","e","m","o","r","y",":","\n">>

\* agent.py:181
SummaryCurrent ==
    <<"C","u","r","r","e","n","t"," ","s","h","o","r","t","-","t","e","r",
      "m"," ","m","e","m","o","r","y",":","\n">>

\* agent.py:183-184
SummaryTail ==
    <<"P","l","e","a","s","e"," ","w","r","i","t","e"," ","a"," ","c","o",
      "n","c","i","s","e"," ","E","n","g","l","i","s","h"," ","s","u","m",
      "m","a","r","y"," ","t","h","a","t"," ","i","n","c","l","u","d","e",
      "s"," ","i","m","p","o","r","t","a","n","t"," ","c","o","n","t","e",
      "x","t"," ","f","r","o","m"," ","a","l","l"," ","o","f"," ","t","h",
      "e"," ","a","b","o","v","e",","," ","w","i","t","h","o","u","t"," ",
      "d","u","p","l","i","c","a","t","i","n","g"," ","s","h","o","r","t",
      "-","t","e","r","m"," ","m","e","m","o","r","y","."," ","R","e","s",
      "p","o","n","d"," ","i","n"," ","E","n","g","l","i","s","h"," ","o",
      "n","l","y",".">>

\* model.py:26
StrAnythingLLM ==
    <<"a","n","y","t","h","i","n","g","l","l","m">>

\* model.py:28
StrLMStudio ==
    <<"l","m","s","t","u","d","i","o">>

\* model.py:30
StrNexa ==
    <<"n","e","x","a">>

\* servers/nexa.py:38
NotValidJson ==
    <<"R","e","s","p","o","n","s","e"," ","i","s"," ","n","o","t"," ","v",
      "a","l","i","d"," ","J","S","O","N">>

\* servers/nexa.py:40, for the KeyError of a payload without 'choices'
ChatRequestFailed ==
    <<"C","h","a","t"," ","r","e","q","u","e","s","t"," ","f","a","i","l",
      "e","d","."," ","E","r","r","o","r",":"," ","'","c","h","o","i","c",
      "e","s","'">>

\* the identity the agent is constructed with (tests/core/test_agent.py:25)
core_identity ==
    <<"T","e","s","t"," ","a","g","e","n","t"," ","i","d","e","n","t","i",
      "t","y">>

\* name of the registered tool (tests/core/test_agent.py:24)
EchoName ==
    <<"E","c","h","o">>

\* tests/core/test_agent.py:16
EchoWithArg ==
    <<"E","c","h","o",":"," ">>

\* tests/core/test_agent.py:16
EchoNoArg ==
    <<"E","c","h","o",":">>
(***************************************************************************)
(* Inputs of the model: what input() returns, what the model endpoint      *)
(* replies to the primary call and to the summarization call.              *)
(***************************************************************************)
\* lines typed by the user (input(), agent.py:58)
RawInputs ==
  { <<"e","x","i","t">>,
    <<" ","Q","u","i","t","\t">>,
    <<>>,
    <<" ","q","u","i","t"," ","i","t"," ">> }

\* replies of the model endpoint to the primary call (agent.py:94)
Replies ==
  { <<"E","c","h","o","(","h","e","l","l","o",")">>,
    <<" ","E","c","h","o","(",")"," ","\n">>,
    <<"e","c","h","o","(","h","i",")">>,
    <<"E","c","h","o","(","a",")"," ","E","c","h","o","(","b",")">>,
    <<" ","o","k","\n">> }

\* characters of the enumerated replies: a word character, the two
\* parentheses, two kinds of whitespace and a character of neither kind
ParseAlphabet == {"a", "(", ")", " ", "\n", "!"}

\* every string over ParseAlphabet of at most n characters
Strings(n) == UNION {[1..k -> ParseAlphabet] : k \in 0..n}

\* replies the parser of chat_completion is applied to on its own: the
\* enumerated ones, those of the sessions and those of the tests
ParseReplies ==
    Strings(MaxReplyLen) \cup Replies \cup
    { <<"E","c","h","o","(","t","e","s","t",")">>,
      <<"E","c","h","o","(",")">>,
      <<"j","u","s","t"," ","t","e","x","t">> }

\* replies of the model endpoint to the summarization call (agent.py:190)
SummaryReplies ==
  { <<" ","S","1","\n">>,
    <<"S","2">> }

(***************************************************************************)
(* State.                                                                  *)
(***************************************************************************)
VARIABLES
    pc,                    \* "constructed", "awaiting", "closed", "crashed";
                           \* "parsing", "parsed" and "constructing" in the
                           \* specifications of single functions
    outcome,               \* how the last iteration of the loop ended
    max_short_memory,      \* Agent._max_short_memory (SHORT_MEMORY_SIZE, W)
    disable_long_memory,   \* Agent._disable_long_memory
    disable_short_memory,  \* Agent._disable_short_memory
    short_memory,          \* Agent.short_memory, the conversation window
    long_memory,           \* Agent.long_memory, the summary
    transcript_exists,     \* whether the transcript file is on disk
    transcript_content,    \* the text of the transcript file
    raw_input,             \* what the last input() returned
    user_input,            \* run(): user_input of the last iteration
    messages,              \* chat_completion(): the prompt of the last turn
    response,              \* chat_completion(): the model reply of the last turn
    match,                 \* chat_completion(): <<>> for None, else match.groups()
    result,                \* chat_completion(): the answer of the last turn
    popped_messages,       \* _handle_memory(): entries evicted in the last turn
    summary_prompt,        \* _handle_memory(): the last summarization request
    turn_tools,            \* tool handlers invoked in the last turn, as <<name, arg>>
    turns,                 \* turns whose transcript block was written
    inputs_read,           \* number of input() calls
    model_calls,           \* number of ModelInterface.chat_completion calls
    summary_calls,         \* how many of them were summarization calls
    tool_calls,            \* number of Tool.run calls
    logged,                \* <<user_input, result>> of every turn written to the transcript
    mi_pc,                 \* ModelInterface: "new", "ready", "failed"
    model_provider,        \* ModelInterface.model_provider
    client,                \* ModelInterface.client: the provider whose setup built it
    clients_created,       \* number of setup_*_client calls
    mi_error,              \* exception raised by the last ModelInterface operation
    mi_calls,              \* number of ModelInterface.chat_completion calls made
    call_messages,         \* chat_completion(): messages of the last call
    call_stream,           \* chat_completion(): stream of the last call
    call_returned,         \* chat_completion(): value returned by the last call
    client_returned,       \* value returned by the last client.chat call
    client_chats,          \* the client.chat calls made, as [client, messages]
    px_log,                \* chat proxy: <<upstream exchange, status answered>> of
                           \* the /chat requests served
    json_error_is_request_error,
                           \* whether the installed requests library derives
                           \* its JSONDecodeError from RequestException
    ws_pc,                 \* transcription service: "starting", "serving"
    whisper_app,           \* the global model instance: 0 is None, otherwise
                           \* the number of the load that created it
    load_attempts,         \* number of HfWhisperApp constructions begun
    loads,                 \* number of HfWhisperApp constructions completed
    ws_served,             \* number of requests answered
    ws_request,            \* the last request: endpoint and what it carried
    ws_status,             \* HTTP status of the last answer, 0 before any
    health_checks,         \* number of /health requests answered
    health_reported,       \* model_loaded of the last /health answer
    tmp_files              \* temporary files on disk, as [path, call]

\* the state of the ModelInterface
modelVars ==
    <<mi_pc, model_provider, client, clients_created, mi_error, mi_calls,
      call_messages, call_stream, call_returned, client_returned, client_chats>>

\* the state of the Agent and of its session
agentVars ==
    <<pc, outcome, max_short_memory, disable_long_memory, disable_short_memory,
      short_memory, long_memory, transcript_exists, transcript_content,
      raw_input, user_input, messages, response, match, result, popped_messages,
      summary_prompt, turn_tools, turns, inputs_read, model_calls,
      summary_calls, tool_calls, logged>>

serviceVars ==
    <<px_log, json_error_is_request_error, ws_pc, whisper_app, load_attempts,
      loads, ws_served, ws_request, ws_status, health_checks, health_reported,
      tmp_files>>

vars == <<agentVars, modelVars, serviceVars>>

(***************************************************************************)
(* Messages and the tool registry.                                         *)
(***************************************************************************)
\* {"role": role, "content": content}
Msg(role, content) == [role |-> role, content |-> content]

\* f"{role.capitalize()}: {content}"
FormatMsg(m) == Capitalize(m.role) \o ColonSpace \o m.content

\* keys of Agent.tools
tools == {EchoName}

\* handler of the registered tool
dummy_tool_func(arg) == IF arg # <<>> THEN EchoWithArg \o arg ELSE EchoNoArg

\* Tool.run(arg) of the tool registered under name
ToolRun(name, arg) == dummy_tool_func(arg)

(***************************************************************************)
(* The tool-call pattern of chat_completion, compiled with re.DOTALL: a    *)
(* run of word characters (group 1), "(", any text (group 2), ")", end.    *)
(* A split <<i, j>> of s is one way the pattern matches from the start of  *)
(* s: group 1 is s[1..i], s[i+1] is "(", group 2 is s[i+2..j-1], s[j] is   *)
(* ")" and $ holds right after position j.                                 *)
(***************************************************************************)
\* $ without re.MULTILINE: at the end, or before a newline that ends the string
AtDollar(s, j) == j = Len(s) \/ (j = Len(s) - 1 /\ s[Len(s)] = "\n")

\* where group 1 may end: a non-empty run of word characters followed by "("
NameEnds(s) ==
    { i \in 1..(Len(s) - 1) :
        /\ \A k \in 1..i : s[k] \in WordChars
        /\ s[i + 1] = "(" }

\* where the closing ")" may stand
CloseAts(s) == { j \in 1..Len(s) : s[j] = ")" /\ AtDollar(s, j) }

\* ToolCallSplits without re.DOTALL: group 2 cannot hold a newline
ToolCallSplits_NoDotAll(s) ==
    { p \in NameEnds(s) \X CloseAts(s) :
        /\ p[2] >= p[1] + 2
        /\ \A k \in (p[1] + 2)..(p[2] - 1) : s[k] # "\n" }

\* the ways the pattern matches s from its start
ToolCallSplits(s) ==
    { p \in NameEnds(s) \X CloseAts(s) : p[2] >= p[1] + 2 }

\* tool_call_pattern.match(s) is not None
ToolCallMatches(s) == ToolCallSplits(s) # {}

\* both quantifiers are greedy: the longest group 1, then the longest group 2
GreedySplit(s) ==
    LET splits == ToolCallSplits(s) IN
    CHOOSE p \in splits :
        \A q \in splits : q[1] < p[1] \/ (q[1] = p[1] /\ q[2] <= p[2])

\* match.groups(), as <<name, arg>>
MatchGroups(s) ==
    LET p == GreedySplit(s) IN
    <<SubSeq(s, 1, p[1]), SubSeq(s, p[1] + 2, p[2] - 1)>>

(***************************************************************************)
(* Agent.chat_completion.                                                  *)
(***************************************************************************)
\* match of chat_completion: <<>> when the pattern does not match the
\* stripped reply, else its groups
ReplyMatch(reply) ==
    LET s == Strip(reply) IN
    IF ToolCallMatches(s) THEN MatchGroups(s) ELSE <<>>

\* ToolInvocations running the tool once for every "(" of a matching reply
ToolInvocations_PerFragment(reply) ==
    LET s == Strip(reply) IN
    IF ToolCallMatches(s)
    THEN LET groups == MatchGroups(s) IN
         IF groups[1] \in tools
         THEN [k \in 1..Cardinality({i \in 1..Len(s) : s[i] = "("}) |-> groups]
         ELSE <<>>
    ELSE <<>>

\* the Tool.run calls chat_completion makes for a model reply
ToolInvocations(reply) ==
    LET s == Strip(reply) IN
    IF ToolCallMatches(s)
    THEN LET groups == MatchGroups(s) IN
         IF groups[1] \in tools THEN <<groups>> ELSE <<>>
    ELSE <<>>

\* ChatResult without the final strip()
ChatResult_Untrimmed(reply) ==
    LET s == Strip(reply) IN
    IF ToolCallMatches(s)
    THEN LET groups == MatchGroups(s) IN
         IF groups[1] \in tools
         THEN ToolRun(groups[1], groups[2])
         ELSE <<>>
    ELSE reply

\* ChatResult that never dispatches: the model text is always the answer
ChatResult_NoDispatch(reply) == Strip(reply)

\* the value of result that chat_completion returns for a model reply
ChatResult(reply) ==
    LET s == Strip(reply) IN
    Strip(IF ToolCallMatches(s)
          THEN LET groups == MatchGroups(s) IN
               IF groups[1] \in tools
               THEN ToolRun(groups[1], groups[2])
               ELSE <<>>
          ELSE reply)

(***************************************************************************)
(* Agent._build_prompt.                                                    *)
(***************************************************************************)
\* BuildPrompt with the long-term memory placed after the window block
BuildPrompt_SummaryAfterWindow(input) ==
    <<Msg(RoleSystem, core_identity)>>
    \o (IF short_memory # <<>>
        THEN <<Msg(RoleSystem, RecentMarker)>>
             \o [i \in 1..Len(short_memory) |->
                    Msg(RoleSystem, FormatMsg(short_memory[i]))]
        ELSE <<>>)
    \o (IF ~disable_long_memory /\ long_memory # <<>>
        THEN <<Msg(RoleSystem, LongTermPrefix \o long_memory)>>
        ELSE <<>>)
    \o <<Msg(RoleUser, input)>>

BuildPrompt(input) ==
    <<Msg(RoleSystem, core_identity)>>
    \o (IF ~disable_long_memory /\ long_memory # <<>>
        THEN <<Msg(RoleSystem, LongTermPrefix \o long_memory)>>
        ELSE <<>>)
    \o (IF short_memory # <<>>
        THEN <<Msg(RoleSystem, RecentMarker)>>
             \o [i \in 1..Len(short_memory) |->
                    Msg(RoleSystem, FormatMsg(short_memory[i]))]
        ELSE <<>>)
    \o <<Msg(RoleUser, input)>>

(***************************************************************************)
(* Agent._handle_memory.                                                   *)
(***************************************************************************)
\* Appended with the two appends swapped
Appended_AssistantFirst(input, answer) ==
    short_memory \o <<Msg(RoleAssistant, answer), Msg(RoleUser, input)>>

\* the window after the two appends
Appended(input, answer) ==
    short_memory \o <<Msg(RoleUser, input), Msg(RoleAssistant, answer)>>

\* EvictLoop with "if" in place of "while": at most one entry is popped
EvictLoop_PopsOnce(window, popped) ==
    IF Len(window) > max_short_memory /\ window # <<>>
    THEN <<Tail(window), Append(popped, Head(window))>>
    ELSE <<window, popped>>

RECURSIVE EvictLoop_PopsLast(_, _)
\* EvictLoop with pop() in place of pop(0): the newest entry is popped
EvictLoop_PopsLast(window, popped) ==
    IF Len(window) > max_short_memory /\ window # <<>>
    THEN EvictLoop_PopsLast(SubSeq(window, 1, Len(window) - 1),
                            Append(popped, window[Len(window)]))
    ELSE <<window, popped>>

RECURSIVE EvictLoop_PopsAtLimit(_, _)
\* EvictLoop popping while the window is at the limit, not only above it
EvictLoop_PopsAtLimit(window, popped) ==
    IF Len(window) >= max_short_memory /\ window # <<>>
    THEN EvictLoop_PopsAtLimit(Tail(window), Append(popped, Head(window)))
    ELSE <<window, popped>>

RECURSIVE EvictLoop(_, _)
\* the while loop: <<window, popped_messages>> when it ends; once the window
\* is empty and still longer than the limit, pop(0) raises IndexError
EvictLoop(window, popped) ==
    IF Len(window) > max_short_memory /\ window # <<>>
    THEN EvictLoop(Tail(window), Append(popped, Head(window)))
    ELSE <<window, popped>>

\* the while loop ends by pop(0) raising: the window has been emptied and
\* its length still exceeds the limit
EvictRaises(window) ==
    LET emptied == EvictLoop(window, <<>>)[1] = <<>> IN
    emptied /\ 0 > max_short_memory

\* Summarizes without the test of _disable_long_memory
Summarizes_IgnoresFlag(popped) == popped # <<>>

\* Summarizes skipping the long memory update when short memory is disabled
Summarizes_SkipsWhenShortDisabled(popped) ==
    popped # <<>> /\ ~disable_long_memory /\ ~disable_short_memory

\* whether _handle_memory goes on to the long memory update
Summarizes(popped) == popped # <<>> /\ ~disable_long_memory

\* "\n".join(f"{msg['role'].capitalize()}: {msg['content']}" for msg in msgs)
Flatten(msgs) == Join(Newline, [i \in 1..Len(msgs) |-> FormatMsg(msgs[i])])

\* SummaryPrompt rendering the window as it was before the turn
SummaryPrompt_StaleWindow(popped, window) ==
    <<Msg(RoleSystem,
          SummaryHead \o long_memory \o BlankLine
          \o SummaryDropped \o Flatten(popped) \o BlankLine
          \o SummaryCurrent \o Flatten(short_memory) \o BlankLine
          \o SummaryTail)>>

\* summary_prompt
SummaryPrompt(popped, window) ==
    <<Msg(RoleSystem,
          SummaryHead \o long_memory \o BlankLine
          \o SummaryDropped \o Flatten(popped) \o BlankLine
          \o SummaryCurrent \o Flatten(window) \o BlankLine
          \o SummaryTail)>>

(***************************************************************************)
(* Agent.run: the transcript file and the interaction loop.                *)
(***************************************************************************)
\* IsExit without lower()
IsExit_CaseSensitive(input) == input \in {StrExit, StrQuit}

\* user_input.lower() in {"exit", "quit"}
IsExit(input) == Lower(input) \in {StrExit, StrQuit}

\* the two writes that log one interaction
TranscriptBlock(input, answer) ==
    YouPrefix \o input \o BlankLine \o AgentPrefix \o answer \o BlankLine

RECURSIVE TranscriptOf(_)
\* what the loop has appended to the transcript for a sequence of turns
TranscriptOf(log) ==
    IF log = <<>> THEN <<>>
    ELSE TranscriptBlock(log[1][1], log[1][2]) \o TranscriptOf(Tail(log))

\* CloseTranscript that never removes the file
CloseTranscript_KeepsFile(content) == <<TRUE, content \o file_footer>>

\* closing the transcript file: <<file exists, content>> afterwards
CloseTranscript(content) ==
    IF content = file_header
    THEN <<FALSE, <<>>>>
    ELSE <<TRUE, content \o file_footer>>

\* the chat proxy before its first request
ProxyIdle ==
    /\ px_log = <<>>
    /\ json_error_is_request_error = TRUE

\* the transcription service before its startup event
WhisperIdle ==
    /\ ws_pc = "starting"
    /\ whisper_app = 0
    /\ load_attempts = 0
    /\ loads = 0
    /\ ws_served = 0
    /\ ws_request = [endpoint |-> "none", has_audio |-> FALSE,
                     path_exists |-> FALSE]
    /\ ws_status = 0
    /\ health_checks = 0
    /\ health_reported = FALSE
    /\ tmp_files = {}

\* the two HTTP services before they are started
ServicesIdle == ProxyIdle /\ WhisperIdle

\* the ModelInterface a running agent holds: built for the nexa provider
ModelReady ==
    /\ mi_pc = "ready"
    /\ model_provider = [set |-> TRUE, value |-> StrNexa]
    /\ client = "nexa"
    /\ clients_created = 1
    /\ mi_error = "none"
    /\ mi_calls = 0
    /\ call_messages = <<>>
    /\ call_stream = FALSE
    /\ call_returned = <<>>
    /\ client_returned = <<>>
    /\ client_chats = <<>>

\* values of SHORT_MEMORY_SIZE explored
Configs == (0..MaxW) \cup {-1}

Init ==
    /\ pc = "constructed"
    /\ outcome = "none"
    /\ max_short_memory \in Configs
    /\ disable_long_memory \in BOOLEAN
    /\ disable_short_memory \in BOOLEAN
    /\ short_memory = <<>>
    /\ long_memory = <<>>
    /\ transcript_exists = FALSE
    /\ transcript_content = <<>>
    /\ raw_input = <<>>
    /\ user_input = <<>>
    /\ messages = <<>>
    /\ response = <<>>
    /\ match = <<>>
    /\ result = <<>>
    /\ popped_messages = <<>>
    /\ summary_prompt = <<>>
    /\ turn_tools = <<>>
    /\ turns = 0
    /\ inputs_read = 0
    /\ model_calls = 0
    /\ summary_calls = 0
    /\ tool_calls = 0
    /\ logged = <<>>
    /\ ModelReady
    /\ ServicesIdle

\* run() up to the interaction loop: the transcript file is created
RunStart ==
    /\ pc = "constructed"
    /\ pc' = "awaiting"
    /\ transcript_exists' = TRUE
    /\ transcript_content' = file_header
    /\ UNCHANGED <<outcome, max_short_memory, disable_long_memory,
                   disable_short_memory,
                   short_memory, long_memory, raw_input, user_input, messages,
                   response, result, popped_messages, summary_prompt,
                   turn_tools, turns, inputs_read, model_calls, summary_calls,
                   tool_calls, match, logged, modelVars, serviceVars>>

\* an iteration that reads an exit token: break, then the transcript is closed
ExitInput(raw) ==
    /\ pc = "awaiting"
    /\ IsExit(Strip(raw))
    /\ pc' = "closed"
    /\ outcome' = "exit"
    /\ raw_input' = raw
    /\ user_input' = Strip(raw)
    /\ inputs_read' = inputs_read + 1
    /\ transcript_exists' = CloseTranscript(transcript_content)[1]
    /\ transcript_content' = CloseTranscript(transcript_content)[2]
    /\ UNCHANGED <<max_short_memory, disable_long_memory, disable_short_memory,
                   short_memory, long_memory, messages, response, result,
                   popped_messages, summary_prompt, turn_tools, turns,
                   model_calls, summary_calls, tool_calls, match, logged,
                   modelVars, serviceVars>>

\* what every iteration that starts a turn does up to the primary model call
TurnBegins(raw) ==
    /\ pc = "awaiting"
    /\ turns < MaxTurns
    /\ ~IsExit(Strip(raw))
    /\ raw_input' = raw
    /\ user_input' = Strip(raw)
    /\ inputs_read' = inputs_read + 1
    /\ messages' = BuildPrompt(user_input')
    /\ UNCHANGED <<max_short_memory, disable_long_memory, disable_short_memory,
                   modelVars, serviceVars>>

\* TurnModelRaises repeating the failed call once before giving up
TurnModelRaises_Retries(raw) ==
    /\ TurnBegins(raw)
    /\ pc' = "crashed"
    /\ outcome' = "model_raised"
    /\ model_calls' = model_calls + 2
    /\ turn_tools' = <<>>
    /\ UNCHANGED <<short_memory, long_memory, transcript_exists,
                   transcript_content, response, match, result,
                   popped_messages, summary_prompt, turns, summary_calls,
                   tool_calls, logged>>

\* the primary model call raises (requests.post fails): the exception leaves run()
TurnModelRaises(raw) ==
    /\ TurnBegins(raw)
    /\ pc' = "crashed"
    /\ outcome' = "model_raised"
    /\ model_calls' = model_calls + 1
    /\ turn_tools' = <<>>
    /\ UNCHANGED <<short_memory, long_memory, transcript_exists,
                   transcript_content, response, match, result,
                   popped_messages, summary_prompt, turns, summary_calls,
                   tool_calls, logged>>

\* what every turn does from the model reply to the end of the eviction loop
TurnReplied(raw, reply) ==
    /\ TurnBegins(raw)
    /\ response' = reply
    /\ match' = ReplyMatch(reply)
    /\ turn_tools' = ToolInvocations(reply)
    /\ tool_calls' = tool_calls + Len(ToolInvocations(reply))
    /\ result' = ChatResult(reply)
    /\ LET evicted == EvictLoop(Appended(user_input', result'), <<>>) IN
         /\ short_memory' = evicted[1]
         /\ popped_messages' = evicted[2]

\* the eviction loop pops from an empty window: IndexError leaves run()
TurnEvictRaises(raw, reply) ==
    /\ TurnReplied(raw, reply)
    /\ EvictRaises(Appended(user_input', result'))
    /\ pc' = "crashed"
    /\ outcome' = "evict_raised"
    /\ model_calls' = model_calls + 1
    /\ UNCHANGED <<long_memory, transcript_exists, transcript_content,
                   summary_prompt, turns, summary_calls, logged>>

\* a turn without long memory update, logged to the transcript
Turn(raw, reply) ==
    /\ TurnReplied(raw, reply)
    /\ ~EvictRaises(Appended(user_input', result'))
    /\ ~Summarizes(popped_messages')
    /\ pc' = "awaiting"
    /\ outcome' = "answered"
    /\ model_calls' = model_calls + 1
    /\ turns' = turns + 1
    /\ transcript_content' =
           transcript_content \o TranscriptBlock(user_input', result')
    /\ logged' = Append(logged, <<user_input', result'>>)
    /\ UNCHANGED <<long_memory, transcript_exists, summary_prompt, summary_calls>>

\* a turn whose evicted messages are summarized, logged to the transcript
TurnSummarized(raw, reply, summary) ==
    /\ TurnReplied(raw, reply)
    /\ ~EvictRaises(Appended(user_input', result'))
    /\ Summarizes(popped_messages')
    /\ summary_prompt' = SummaryPrompt(popped_messages', short_memory')
    /\ long_memory' = Strip(summary)
    /\ pc' = "awaiting"
    /\ outcome' = "summarized"
    /\ model_calls' = model_calls + 2
    /\ summary_calls' = summary_calls + 1
    /\ turns' = turns + 1
    /\ transcript_content' =
           transcript_content \o TranscriptBlock(user_input', result')
    /\ logged' = Append(logged, <<user_input', result'>>)
    /\ UNCHANGED transcript_exists

\* TurnSummaryRaises with the exception caught: the turn is logged and goes on
TurnSummaryRaises_Caught(raw, reply) ==
    /\ TurnReplied(raw, reply)
    /\ ~EvictRaises(Appended(user_input', result'))
    /\ Summarizes(popped_messages')
    /\ summary_prompt' = SummaryPrompt(popped_messages', short_memory')
    /\ pc' = "awaiting"
    /\ outcome' = "summary_raised"
    /\ model_calls' = model_calls + 2
    /\ summary_calls' = summary_calls + 1
    /\ turns' = turns + 1
    /\ transcript_content' =
           transcript_content \o TranscriptBlock(user_input', result')
    /\ logged' = Append(logged, <<user_input', result'>>)
    /\ UNCHANGED <<long_memory, transcript_exists>>

\* the summarization call raises: the exception leaves run(), nothing is logged
TurnSummaryRaises(raw, reply) ==
    /\ TurnReplied(raw, reply)
    /\ ~EvictRaises(Appended(user_input', result'))
    /\ Summarizes(popped_messages')
    /\ summary_prompt' = SummaryPrompt(popped_messages', short_memory')
    /\ pc' = "crashed"
    /\ outcome' = "summary_raised"
    /\ model_calls' = model_calls + 2
    /\ summary_calls' = summary_calls + 1
    /\ UNCHANGED <<long_memory, transcript_exists, transcript_content, turns,
                   logged>>

Next ==
    \/ RunStart
    \/ \E raw \in RawInputs : ExitInput(raw)
    \/ \E raw \in RawInputs : TurnModelRaises(raw)
    \/ \E raw \in RawInputs, reply \in Replies : TurnEvictRaises(raw, reply)
    \/ \E raw \in RawInputs, reply \in Replies : Turn(raw, reply)
    \/ \E raw \in RawInputs, reply \in Replies, summary \in SummaryReplies :
           TurnSummarized(raw, reply, summary)
    \/ \E raw \in RawInputs, reply \in Replies : TurnSummaryRaises(raw, reply)

Spec == Init /\ [][Next]_vars

(***************************************************************************)
(* NexaClient.chat and the sessions of an agent whose model endpoint fails *)
(* on every call.                                                          *)
(***************************************************************************)
\* how the HTTP exchange of one chat() call can fail: requests.post raises,
\* the body is not JSON, or the JSON payload has no completion field
FailedExchanges == {"unreachable", "not_json", "no_choices"}

\* chat() lets the exception of requests.post escape: the call is outside the try
NexaChatRaises(exchange) == exchange = "unreachable"

\* the string chat() returns when it returns
NexaChatText(exchange, content) ==
    CASE exchange = "not_json" -> NotValidJson
      [] exchange = "no_choices" -> ChatRequestFailed
      [] OTHER -> content

\* the texts chat() returns for the failed exchanges that do not raise
ErrorTexts ==
    { NexaChatText(exchange, <<>>) :
        exchange \in {e \in FailedExchanges : ~NexaChatRaises(e)} }

NextFailing ==
    \/ RunStart
    \/ \E raw \in RawInputs : ExitInput(raw)
    \/ \E raw \in RawInputs : TurnModelRaises(raw)
    \/ \E raw \in RawInputs, reply \in ErrorTexts : TurnEvictRaises(raw, reply)
    \/ \E raw \in RawInputs, reply \in ErrorTexts : Turn(raw, reply)
    \/ \E raw \in RawInputs, reply \in ErrorTexts, summary \in ErrorTexts :
           TurnSummarized(raw, reply, summary)
    \/ \E raw \in RawInputs, reply \in ErrorTexts : TurnSummaryRaises(raw, reply)

SpecFailing == Init /\ [][NextFailing]_vars

(***************************************************************************)
(* One turn of run() step by step: every statement of the loop body and of *)
(* chat_completion that reads or writes the agent's state is a step of its *)
(* own, and pc is the statement the loop has reached.                      *)
(***************************************************************************)
\* console inputs, model replies and summaries of the step-by-step sessions
StepInputs == {<<"e","x","i","t">>, <<>>, <<"h","i"," ">>}

StepReplies == {<<"E","c","h","o","(","h","e","l","l","o",")">>,
                <<" ","o","k","\n">>}

StepSummaries == {<<"S","2">>}

InitSteps ==
    /\ Init

\* run() up to the loop: the transcript file is created
StepStart ==
    /\ pc = "constructed"
    /\ pc' = "awaiting"
    /\ transcript_exists' = TRUE
    /\ transcript_content' = file_header
    /\ UNCHANGED <<outcome, max_short_memory, disable_long_memory,
                   disable_short_memory, short_memory, long_memory, raw_input,
                   user_input, messages, response, match, result,
                   popped_messages, summary_prompt, turn_tools, turns,
                   inputs_read, model_calls, summary_calls, tool_calls, logged,
                   modelVars, serviceVars>>

\* input() returns an exit token: break, and the transcript is closed
StepReadExit(raw) ==
    /\ pc = "awaiting"
    /\ IsExit(Strip(raw))
    /\ pc' = "closed"
    /\ outcome' = "exit"
    /\ raw_input' = raw
    /\ user_input' = Strip(raw)
    /\ inputs_read' = inputs_read + 1
    /\ transcript_exists' = CloseTranscript(transcript_content)[1]
    /\ transcript_content' = CloseTranscript(transcript_content)[2]
    /\ UNCHANGED <<max_short_memory, disable_long_memory, disable_short_memory,
                   short_memory, long_memory, messages, response, match,
                   result, popped_messages, summary_prompt, turn_tools, turns,
                   model_calls, summary_calls, tool_calls, logged, modelVars, serviceVars>>

\* input() returns anything else: the turn begins
StepReadInput(raw) ==
    /\ pc = "awaiting"
    /\ turns < MaxTurns
    /\ ~IsExit(Strip(raw))
    /\ pc' = "prompting"
    /\ raw_input' = raw
    /\ user_input' = Strip(raw)
    /\ inputs_read' = inputs_read + 1
    /\ UNCHANGED <<outcome, max_short_memory, disable_long_memory,
                   disable_short_memory, short_memory, long_memory,
                   transcript_exists, transcript_content, messages, response,
                   match, result, popped_messages, summary_prompt, turn_tools,
                   turns, model_calls, summary_calls, tool_calls, logged,
                   modelVars, serviceVars>>

\* messages = self._build_prompt(user_input)
StepBuildPrompt ==
    /\ pc = "prompting"
    /\ pc' = "dispatching"
    /\ messages' = BuildPrompt(user_input)
    /\ UNCHANGED <<outcome, max_short_memory, disable_long_memory,
                   disable_short_memory, short_memory, long_memory,
                   transcript_exists, transcript_content, raw_input,
                   user_input, response, match, result, popped_messages,
                   summary_prompt, turn_tools, turns, inputs_read, model_calls,
                   summary_calls, tool_calls, logged, modelVars, serviceVars>>

\* response = self.model.chat_completion(messages)
StepModelReplies(reply) ==
    /\ pc = "dispatching"
    /\ pc' = "parsing"
    /\ response' = reply
    /\ model_calls' = model_calls + 1
    /\ UNCHANGED <<outcome, max_short_memory, disable_long_memory,
                   disable_short_memory, short_memory, long_memory,
                   transcript_exists, transcript_content, raw_input,
                   user_input, messages, match, result, popped_messages,
                   summary_prompt, turn_tools, turns, inputs_read,
                   summary_calls, tool_calls, logged, modelVars, serviceVars>>

\* the primary model call raises: the exception leaves run()
StepModelRaises ==
    /\ pc = "dispatching"
    /\ pc' = "crashed"
    /\ outcome' = "model_raised"
    /\ model_calls' = model_calls + 1
    /\ UNCHANGED <<max_short_memory, disable_long_memory, disable_short_memory,
                   short_memory, long_memory, transcript_exists,
                   transcript_content, raw_input, user_input, messages,
                   response, match, result, popped_messages, summary_prompt,
                   turn_tools, turns, inputs_read, summary_calls, tool_calls,
                   logged, modelVars, serviceVars>>

\* match = tool_call_pattern.match(response.strip()), and the branch taken
StepParse ==
    /\ pc = "parsing"
    /\ match' = ReplyMatch(response)
    /\ pc' = IF ToolInvocations(response) # <<>>
             THEN "tool_executing"
             ELSE "answering"
    /\ UNCHANGED <<outcome, max_short_memory, disable_long_memory,
                   disable_short_memory, short_memory, long_memory,
                   transcript_exists, transcript_content, raw_input,
                   user_input, messages, response, result, popped_messages,
                   summary_prompt, turn_tools, turns, inputs_read, model_calls,
                   summary_calls, tool_calls, logged, modelVars, serviceVars>>

\* result = tool.run(arg), then result.strip()
StepToolRuns ==
    /\ pc = "tool_executing"
    /\ pc' = "memory_write"
    /\ turn_tools' = ToolInvocations(response)
    /\ tool_calls' = tool_calls + Len(ToolInvocations(response))
    /\ result' = ChatResult(response)
    /\ UNCHANGED <<outcome, max_short_memory, disable_long_memory,
                   disable_short_memory, short_memory, long_memory,
                   transcript_exists, transcript_content, raw_input,
                   user_input, messages, response, match, popped_messages,
                   summary_prompt, turns, inputs_read, model_calls,
                   summary_calls, logged, modelVars, serviceVars>>

\* result = response (or "" for an unregistered tool), then result.strip()
StepAnswers ==
    /\ pc = "answering"
    /\ pc' = "memory_write"
    /\ turn_tools' = <<>>
    /\ result' = ChatResult(response)
    /\ UNCHANGED <<outcome, max_short_memory, disable_long_memory,
                   disable_short_memory, short_memory, long_memory,
                   transcript_exists, transcript_content, raw_input,
                   user_input, messages, response, match, popped_messages,
                   summary_prompt, turns, inputs_read, model_calls,
                   summary_calls, tool_calls, logged, modelVars, serviceVars>>

\* StepMemoryWrite going back to input() without the transcript append
StepMemoryWrite_SkipsLog ==
    /\ pc = "memory_write"
    /\ LET evicted == EvictLoop(Appended(user_input, result), <<>>) IN
         /\ short_memory' = evicted[1]
         /\ popped_messages' = evicted[2]
    /\ pc' = IF EvictRaises(Appended(user_input, result)) THEN "crashed"
             ELSE IF Summarizes(popped_messages') THEN "summarizing"
             ELSE "awaiting"
    /\ outcome' = IF EvictRaises(Appended(user_input, result))
                  THEN "evict_raised"
                  ELSE outcome
    /\ turns' = turns + 1
    /\ UNCHANGED <<max_short_memory, disable_long_memory, disable_short_memory,
                   long_memory, transcript_exists, transcript_content,
                   raw_input, user_input, messages, response, match, result,
                   summary_prompt, turn_tools, inputs_read, model_calls,
                   summary_calls, tool_calls, logged, modelVars, serviceVars>>

\* _handle_memory up to the test for the long memory update
StepMemoryWrite ==
    /\ pc = "memory_write"
    /\ LET evicted == EvictLoop(Appended(user_input, result), <<>>) IN
         /\ short_memory' = evicted[1]
         /\ popped_messages' = evicted[2]
    /\ pc' = IF EvictRaises(Appended(user_input, result)) THEN "crashed"
             ELSE IF Summarizes(popped_messages') THEN "summarizing"
             ELSE "logging"
    /\ outcome' = IF EvictRaises(Appended(user_input, result))
                  THEN "evict_raised"
                  ELSE outcome
    /\ UNCHANGED <<max_short_memory, disable_long_memory, disable_short_memory,
                   long_memory, transcript_exists, transcript_content,
                   raw_input, user_input, messages, response, match, result,
                   summary_prompt, turn_tools, turns, inputs_read, model_calls,
                   summary_calls, tool_calls, logged, modelVars, serviceVars>>

\* the summarization call and the assignment of long_memory
StepSummaryReplies(summary) ==
    /\ pc = "summarizing"
    /\ pc' = "logging"
    /\ summary_prompt' = SummaryPrompt(popped_messages, short_memory)
    /\ long_memory' = Strip(summary)
    /\ model_calls' = model_calls + 1
    /\ summary_calls' = summary_calls + 1
    /\ UNCHANGED <<outcome, max_short_memory, disable_long_memory,
                   disable_short_memory, short_memory, transcript_exists,
                   transcript_content, raw_input, user_input, messages,
                   response, match, result, popped_messages, turn_tools, turns,
                   inputs_read, tool_calls, logged, modelVars, serviceVars>>

\* the summarization call raises: the exception leaves run()
StepSummaryRaises ==
    /\ pc = "summarizing"
    /\ pc' = "crashed"
    /\ outcome' = "summary_raised"
    /\ summary_prompt' = SummaryPrompt(popped_messages, short_memory)
    /\ model_calls' = model_calls + 1
    /\ summary_calls' = summary_calls + 1
    /\ UNCHANGED <<max_short_memory, disable_long_memory, disable_short_memory,
                   short_memory, long_memory, transcript_exists,
                   transcript_content, raw_input, user_input, messages,
                   response, match, result, popped_messages, turn_tools, turns,
                   inputs_read, tool_calls, logged, modelVars, serviceVars>>

\* the answer is returned and printed, and the interaction appended to the file
StepLog ==
    /\ pc = "logging"
    /\ pc' = "awaiting"
    /\ outcome' = IF Summarizes(popped_messages) THEN "summarized" ELSE "answered"
    /\ turns' = turns + 1
    /\ transcript_content' =
           transcript_content \o TranscriptBlock(user_input, result)
    /\ logged' = Append(logged, <<user_input, result>>)
    /\ UNCHANGED <<max_short_memory, disable_long_memory, disable_short_memory,
                   short_memory, long_memory, transcript_exists, raw_input,
                   user_input, messages, response, match, result,
                   popped_messages, summary_prompt, turn_tools, inputs_read,
                   model_calls, summary_calls, tool_calls, modelVars, serviceVars>>

NextSteps ==
    \/ StepStart
    \/ \E raw \in StepInputs : StepReadExit(raw)
    \/ \E raw \in StepInputs : StepReadInput(raw)
    \/ StepBuildPrompt
    \/ \E reply \in StepReplies : StepModelReplies(reply)
    \/ StepModelRaises
    \/ StepParse
    \/ StepToolRuns
    \/ StepAnswers
    \/ StepMemoryWrite
    \/ \E summary \in StepSummaries : StepSummaryReplies(summary)
    \/ StepSummaryRaises
    \/ StepLog

SpecSteps == InitSteps /\ [][NextSteps]_vars

(***************************************************************************)
(* Exceptions: an exception is [cls, status], status being the status_code *)
(* of an HTTPException and 0 otherwise; an except clause catches the       *)
(* exceptions whose class has the clause's class among its bases.          *)
(***************************************************************************)
NoException == [cls |-> "none", status |-> 0]

Raise(cls) == [cls |-> cls, status |-> 0]

\* HTTPException(status_code=status)
HTTPException(status) == [cls |-> "HTTPException", status |-> status]

\* the classes an except clause must name to catch an exception of class cls
Bases(cls) ==
    CASE cls \in {"ConnectionError", "Timeout"}
             -> {cls, "RequestException", "Exception"}
      [] cls = "JSONDecodeError"
             -> IF json_error_is_request_error
                THEN {cls, "RequestException", "ValueError", "Exception"}
                ELSE {cls, "ValueError", "Exception"}
      [] OTHER -> {cls, "Exception"}

Catches(clause, exc) == exc.cls # "none" /\ clause \in Bases(exc.cls)

(***************************************************************************)
(* Neither service is part of an agent process: in their specifications    *)
(* no agent and no ModelInterface exists.                                  *)
(***************************************************************************)
NoAgent ==
    /\ pc = "constructing"
    /\ outcome = "none"
    /\ max_short_memory = MaxW
    /\ disable_long_memory = TRUE
    /\ disable_short_memory = FALSE
    /\ short_memory = <<>>
    /\ long_memory = <<>>
    /\ transcript_exists = FALSE
    /\ transcript_content = <<>>
    /\ raw_input = <<>>
    /\ user_input = <<>>
    /\ messages = <<>>
    /\ response = <<>>
    /\ match = <<>>
    /\ result = <<>>
    /\ popped_messages = <<>>
    /\ summary_prompt = <<>>
    /\ turn_tools = <<>>
    /\ turns = 0
    /\ inputs_read = 0
    /\ model_calls = 0
    /\ summary_calls = 0
    /\ tool_calls = 0
    /\ logged = <<>>
    /\ mi_pc = "new"
    /\ model_provider = [set |-> FALSE, value |-> <<>>]
    /\ client = "none"
    /\ clients_created = 0
    /\ mi_error = "none"
    /\ mi_calls = 0
    /\ call_messages = <<>>
    /\ call_stream = FALSE
    /\ call_returned = <<>>
    /\ client_returned = <<>>
    /\ client_chats = <<>>

(***************************************************************************)
(* The chat proxy (chat_api.py): the /chat handler.                        *)
(***************************************************************************)
\* what requests.post to the LLM server can come to: no connection, no
\* answer in time, or an answer with a status and a body
UpstreamExchanges ==
    { [kind |-> "connection_refused", status |-> 0, body |-> "none"],
      [kind |-> "timeout", status |-> 0, body |-> "none"] }
    \cup { [kind |-> "answered", status |-> 200, body |-> b] :
             b \in {"completion", "not_json", "no_choices"} }
    \cup { [kind |-> "answered", status |-> s, body |-> "error"] :
             s \in {400, 401, 404, 429, 500, 503} }

\* the try block of chat: the exception it raises, if any
ChatBody(exchange) ==
    IF exchange.kind = "connection_refused" THEN Raise("ConnectionError")
    ELSE IF exchange.kind = "timeout" THEN Raise("Timeout")
    ELSE IF exchange.status # 200 THEN HTTPException(exchange.status)
    ELSE IF exchange.body = "not_json" THEN Raise("JSONDecodeError")
    ELSE IF exchange.body = "no_choices" THEN Raise("KeyError")
    ELSE NoException

\* chat with its two except clauses: the status the client receives
ChatStatus(exchange) ==
    LET exc == ChatBody(exchange) IN
    IF exc = NoException THEN 200
    ELSE IF Catches("RequestException", exc) THEN 503
    ELSE IF Catches("Exception", exc) THEN 500
    ELSE exc.status

InitProxy ==
    /\ NoAgent
    /\ px_log = <<>>
    /\ json_error_is_request_error \in BOOLEAN
    /\ WhisperIdle

\* POST /chat
ChatRequest(exchange) ==
    /\ Len(px_log) < MaxRequests
    /\ px_log' = Append(px_log, [upstream |-> exchange,
                                 status |-> ChatStatus(exchange)])
    /\ UNCHANGED <<agentVars, modelVars, json_error_is_request_error, ws_pc,
                   whisper_app, load_attempts, loads, ws_served, ws_request,
                   ws_status, health_checks, health_reported, tmp_files>>

NextProxy == \E exchange \in UpstreamExchanges : ChatRequest(exchange)

SpecProxy == InitProxy /\ [][NextProxy]_vars

(***************************************************************************)
(* The transcription service (demo_api.py).  A temporary file on disk is   *)
(* [path, call]: the variable that holds its name and the request that     *)
(* created it.  Each function returns [exc, files]: the exception it       *)
(* raises, if any, and the temporary files on disk when it ends.           *)
(***************************************************************************)
\* what subprocess.run of FFmpeg comes to: exit code 0, another exit code,
\* or an exception of subprocess.run itself (TimeoutExpired)
FfmpegRuns == {"ok", "nonzero", "raises"}

\* the audio bytes: loadable as they are, only after a conversion to PCM,
\* or not at all
Decodings == {"pcm", "after_convert", "never"}

TmpFile(path, call) == [path |-> path, call |-> call]

\* the exception of the statements that run FFmpeg
FfmpegRaises(installed, run) ==
    IF ~installed THEN Raise("Exception")
    ELSE IF run = "raises" THEN Raise("TimeoutExpired")
    ELSE IF run = "nonzero" THEN Raise("Exception")
    ELSE NoException

\* InitializeWhisperModel loading a model whether or not one is set
InitializeWhisperModel_Reloads(app, attempts, load_ok) ==
    IF load_ok
    THEN [exc |-> NoException, app |-> attempts + 1, attempted |-> TRUE,
          loaded |-> TRUE]
    ELSE [exc |-> Raise("Exception"), app |-> app, attempted |-> TRUE,
          loaded |-> FALSE]

\* initialize_whisper_model: the global afterwards, and whether a load was
\* attempted and completed
InitializeWhisperModel(app, attempts, load_ok) ==
    IF app = 0
    THEN IF load_ok
         THEN [exc |-> NoException, app |-> attempts + 1, attempted |-> TRUE,
               loaded |-> TRUE]
         ELSE [exc |-> Raise("Exception"), app |-> app, attempted |-> TRUE,
               loaded |-> FALSE]
    ELSE [exc |-> NoException, app |-> app, attempted |-> FALSE,
          loaded |-> FALSE]

\* convert_audio_to_wav_bytes
ConvertAudioToWavBytes(files, call, installed, run) ==
    IF ~installed
    THEN [exc |-> Raise("Exception"), files |-> files]
    ELSE LET tmp_input == TmpFile("convert.tmp_input_path", call)
             tmp_output == TmpFile("convert.tmp_output_path", call)
             created == files \cup {tmp_input, tmp_output}
         IN  [exc |-> FfmpegRaises(installed, run),
              files |-> created \ {tmp_input, tmp_output}]

\* load_audio_from_bytes with force_convert, or after the plain load failed
LoadForced(files, call, installed, run, decodes) ==
    LET tmp_input == TmpFile("load.tmp_input_path", call)
        tmp_output == TmpFile("load.tmp_output_path", call)
        created == files \cup {tmp_input, tmp_output}
        converted == FfmpegRaises(installed, run)
        cleaned == created \ {tmp_input, tmp_output}
    IN  IF converted # NoException THEN [exc |-> converted, files |-> cleaned]
        ELSE IF decodes = "never"
             THEN [exc |-> Raise("Exception"), files |-> cleaned]
        ELSE [exc |-> NoException, files |-> cleaned]

\* load_audio_from_bytes
LoadAudioFromBytes(files, call, force_convert, installed, run, decodes) ==
    IF force_convert \/ decodes # "pcm"
    THEN LoadForced(files, call, installed, run, decodes)
    ELSE [exc |-> NoException, files |-> files]

\* wav_file_to_blob_data
WavFileToBlobData(files, call, exists, installed, run1, run2, decodes) ==
    IF ~exists THEN [exc |-> Raise("FileNotFoundError"), files |-> files]
    ELSE
    LET loaded == LoadAudioFromBytes(files, call, FALSE, installed, run1, decodes)
        tmp_wav == TmpFile("blob.tmp_wav_path", call)
        tmp_input == TmpFile("blob.tmp_input_path", call)
        with_wav == loaded.files \cup {tmp_wav}
        with_input == with_wav \cup {tmp_input}
    IN  IF loaded.exc # NoException
        THEN [exc |-> Raise("Exception"), files |-> loaded.files]
        ELSE IF ~installed
             THEN [exc |-> NoException, files |-> with_wav \ {tmp_wav}]
        ELSE IF run2 = "raises"
             THEN [exc |-> Raise("Exception"), files |-> with_input \ {tmp_wav}]
        ELSE [exc |-> NoException,
              files |-> (with_input \ {tmp_input}) \ {tmp_wav}]

\* the try block of transcribe_audio and of transcribe_from_blob after the
\* model is there: conversion, loading, transcription
TranscribeBytes(files, call, installed, run1, run2, decodes, transcribes) ==
    LET converted == ConvertAudioToWavBytes(files, call, installed, run1)
        loaded == LoadAudioFromBytes(converted.files, call, FALSE, installed,
                                     run2, decodes)
    IN  IF converted.exc # NoException THEN converted
        ELSE IF loaded.exc # NoException THEN loaded
        ELSE IF ~transcribes
             THEN [exc |-> Raise("Exception"), files |-> loaded.files]
        ELSE loaded

\* the status answered by a handler whose try block raised exc, clauses
\* being its except clauses in order, each <<class, status>>
Answer(exc, clauses) ==
    IF exc = NoException THEN 200
    ELSE LET caught == {i \in 1..Len(clauses) : Catches(clauses[i][1], exc)}
         IN  IF caught = {} THEN exc.status
             ELSE clauses[CHOOSE i \in caught : \A j \in caught : i <= j][2]

InitWhisper ==
    /\ NoAgent
    /\ ProxyIdle
    /\ WhisperIdle

\* what every answered request records
Served(endpoint, has_audio, path_exists, status) ==
    /\ ws_pc = "serving"
    /\ ws_served < MaxRequests
    /\ ws_served' = ws_served + 1
    /\ ws_request' = [endpoint |-> endpoint, has_audio |-> has_audio,
                      path_exists |-> path_exists]
    /\ ws_status' = status
    /\ UNCHANGED <<agentVars, modelVars, px_log, json_error_is_request_error,
                   ws_pc>>

\* what a call of initialize_whisper_model leaves in the globals
Initialized(init) ==
    /\ whisper_app' = init.app
    /\ load_attempts' = load_attempts + (IF init.attempted THEN 1 ELSE 0)
    /\ loads' = loads + (IF init.loaded THEN 1 ELSE 0)

\* startup_event
Startup(load_ok) ==
    /\ ws_pc = "starting"
    /\ ws_pc' = "serving"
    /\ Initialized(InitializeWhisperModel(whisper_app, load_attempts, load_ok))
    /\ UNCHANGED <<agentVars, modelVars, px_log, json_error_is_request_error,
                   ws_served, ws_request, ws_status, health_checks,
                   health_reported, tmp_files>>

\* GET /health
HealthCheck ==
    /\ Served("health", FALSE, FALSE, 200)
    /\ health_checks' = health_checks + 1
    /\ health_reported' = (whisper_app # 0)
    /\ UNCHANGED <<whisper_app, load_attempts, loads, tmp_files>>

\* POST /transcribe
TranscribeAudio(load_ok, installed, run1, run2, decodes, transcribes) ==
    LET init == InitializeWhisperModel(whisper_app, load_attempts, load_ok)
        done == TranscribeBytes(tmp_files, ws_served + 1, installed, run1,
                                run2, decodes, transcribes)
        exc == IF init.exc # NoException THEN init.exc ELSE done.exc
    IN  /\ Served("transcribe", TRUE, FALSE,
                  Answer(exc, << <<"Exception", 500>> >>))
        /\ Initialized(init)
        /\ tmp_files' = IF init.exc # NoException THEN tmp_files ELSE done.files
        /\ UNCHANGED <<health_checks, health_reported>>

\* POST /transcribe-blob
TranscribeFromBlob(load_ok, has_audio, installed, run1, run2, decodes, transcribes) ==
    LET init == InitializeWhisperModel(whisper_app, load_attempts, load_ok)
        done == TranscribeBytes(tmp_files, ws_served + 1, installed, run1,
                                run2, decodes, transcribes)
        exc == IF init.exc # NoException THEN init.exc
               ELSE IF ~has_audio THEN HTTPException(400)
               ELSE done.exc
    IN  /\ Served("transcribe-blob", has_audio, FALSE,
                  Answer(exc, << <<"Exception", 500>> >>))
        /\ Initialized(init)
        /\ tmp_files' = IF init.exc # NoException \/ ~has_audio
                        THEN tmp_files
                        ELSE done.files
        /\ UNCHANGED <<health_checks, health_reported>>

\* POST /transcribe-file-path; still_exists is whether the file is still
\* there when wav_file_to_blob_data looks for it
TranscribeFromFilePath(path_exists, still_exists, load_ok, installed, run1, run2, decodes, transcribes) ==
    LET init == InitializeWhisperModel(whisper_app, load_attempts, load_ok)
        blob == WavFileToBlobData(tmp_files, ws_served + 1, still_exists,
                                  installed, run1, run2, decodes)
        loaded == LoadAudioFromBytes(blob.files, ws_served + 1, FALSE,
                                     installed, run1, decodes)
        exc == IF ~path_exists THEN HTTPException(404)
               ELSE IF init.exc # NoException THEN init.exc
               ELSE IF blob.exc # NoException THEN blob.exc
               ELSE IF loaded.exc # NoException THEN loaded.exc
               ELSE IF ~transcribes THEN Raise("Exception")
               ELSE NoException
    IN  /\ Served("transcribe-file-path", FALSE, path_exists,
                  Answer(exc, << <<"FileNotFoundError", 404>>,
                                 <<"Exception", 500>> >>))
        /\ IF path_exists
           THEN Initialized(init)
           ELSE UNCHANGED <<whisper_app, load_attempts, loads>>
        /\ tmp_files' = IF ~path_exists \/ init.exc # NoException
                        THEN tmp_files
                        ELSE IF blob.exc # NoException THEN blob.files
                        ELSE loaded.files
        /\ UNCHANGED <<health_checks, health_reported>>

\* POST /convert-file-to-blob
ConvertFileToBlob(path_exists, installed, run1, run2, decodes) ==
    LET blob == WavFileToBlobData(tmp_files, ws_served + 1, path_exists,
                                  installed, run1, run2, decodes)
    IN  /\ Served("convert-file-to-blob", FALSE, path_exists,
                  Answer(blob.exc, << <<"FileNotFoundError", 404>>,
                                      <<"Exception", 500>> >>))
        /\ tmp_files' = blob.files
        /\ UNCHANGED <<whisper_app, load_attempts, loads, health_checks,
                       health_reported>>

NextWhisper ==
    \/ \E load_ok \in BOOLEAN : Startup(load_ok)
    \/ HealthCheck
    \/ \E load_ok, installed, transcribes \in BOOLEAN,
          run1, run2 \in FfmpegRuns, decodes \in Decodings :
           TranscribeAudio(load_ok, installed, run1, run2, decodes, transcribes)
    \/ \E load_ok, has_audio, installed, transcribes \in BOOLEAN,
          run1, run2 \in FfmpegRuns, decodes \in Decodings :
           TranscribeFromBlob(load_ok, has_audio, installed, run1, run2,
                              decodes, transcribes)
    \/ \E path_exists, still_exists, load_ok, installed, transcribes \in BOOLEAN,
          run1, run2 \in FfmpegRuns, decodes \in Decodings :
           TranscribeFromFilePath(path_exists, still_exists, load_ok,
                                  installed, run1, run2, decodes, transcribes)
    \/ \E path_exists, installed \in BOOLEAN,
          run1, run2 \in FfmpegRuns, decodes \in Decodings :
           ConvertFileToBlob(path_exists, installed, run1, run2, decodes)

SpecWhisper == InitWhisper /\ [][NextWhisper]_vars

(***************************************************************************)
(* ModelInterface (model.py): construction from MODEL_PROVIDER and         *)
(* chat_completion.  A provider value is [set, value]: set is FALSE when   *)
(* the key is absent from config.yaml.                                     *)
(***************************************************************************)
\* values of MODEL_PROVIDER
Providers ==
    { [set |-> FALSE, value |-> <<>>],
      [set |-> TRUE, value |-> <<>>],
      [set |-> TRUE, value |-> StrAnythingLLM],
      [set |-> TRUE, value |-> <<"A","n","y","t","h","i","n","g","L","L","M">>],
      [set |-> TRUE, value |-> StrLMStudio],
      [set |-> TRUE, value |-> <<"L","M","S","T","U","D","I","O">>],
      [set |-> TRUE, value |-> StrNexa],
      [set |-> TRUE, value |-> <<"N","e","x","a">>],
      [set |-> TRUE, value |-> <<"o","p","e","n","a","i">>],
      [set |-> TRUE, value |-> <<" ","n","e","x","a">>] }

\* message lists passed to chat_completion
ModelMessages ==
    { <<Msg(RoleUser, <<"h","i">>)>>,
      <<Msg(RoleSystem, core_identity), Msg(RoleUser, <<>>)>> }

\* values client.chat returns
ClientReplies ==
    { <<"r","e","s","p","o","n","s","e">>,
      <<" ","o","k","\n">> }

\* not self.model_provider
ProviderMissing(provider) == ~provider.set \/ provider.value = <<>>

\* SetupClient comparing the provider without lower()
SetupClient_CaseSensitive(provider) ==
    IF ProviderMissing(provider) THEN <<"ValueError", "none">>
    ELSE IF provider.value = StrAnythingLLM THEN <<"none", "anythingllm">>
    ELSE IF provider.value = StrLMStudio THEN <<"none", "lmstudio">>
    ELSE IF provider.value = StrNexa THEN <<"none", "nexa">>
    ELSE <<"ValueError", "none">>

\* _setup_client: <<exception raised, provider whose setup_*_client is called>>
SetupClient(provider) ==
    IF ProviderMissing(provider) THEN <<"ValueError", "none">>
    ELSE IF Lower(provider.value) = StrAnythingLLM THEN <<"none", "anythingllm">>
    ELSE IF Lower(provider.value) = StrLMStudio THEN <<"none", "lmstudio">>
    ELSE IF Lower(provider.value) = StrNexa THEN <<"none", "nexa">>
    ELSE <<"ValueError", "none">>

\* ChatDispatch whose nexa branch lacks the stream test
ChatDispatch_NexaStreams(provider, stream) ==
    IF ProviderMissing(provider) THEN "ValueError"
    ELSE IF Lower(provider.value) = StrAnythingLLM
         THEN IF stream THEN "NotImplementedError" ELSE "none"
    ELSE IF Lower(provider.value) = StrLMStudio
         THEN IF stream THEN "NotImplementedError" ELSE "none"
    ELSE IF Lower(provider.value) = StrNexa
         THEN "none"
    ELSE "ValueError"

\* chat_completion up to the client call: the exception it raises, or "none"
\* when it goes on to self.client.chat
ChatDispatch(provider, stream) ==
    IF ProviderMissing(provider) THEN "ValueError"
    ELSE IF Lower(provider.value) = StrAnythingLLM
         THEN IF stream THEN "NotImplementedError" ELSE "none"
    ELSE IF Lower(provider.value) = StrLMStudio
         THEN IF stream THEN "NotImplementedError" ELSE "none"
    ELSE IF Lower(provider.value) = StrNexa
         THEN IF stream THEN "NotImplementedError" ELSE "none"
    ELSE "ValueError"

\* ClientCall passing only the last message on
ClientCall_LastMessageOnly(c, msgs) ==
    [client |-> c, messages |-> <<msgs[Len(msgs)]>>]

\* self.client.chat(messages)
ClientCall(c, msgs) == [client |-> c, messages |-> msgs]

InitModel ==
    /\ pc = "constructing"
    /\ outcome = "none"
    /\ max_short_memory = MaxW
    /\ disable_long_memory = TRUE
    /\ disable_short_memory = FALSE
    /\ short_memory = <<>>
    /\ long_memory = <<>>
    /\ transcript_exists = FALSE
    /\ transcript_content = <<>>
    /\ raw_input = <<>>
    /\ user_input = <<>>
    /\ messages = <<>>
    /\ response = <<>>
    /\ match = <<>>
    /\ result = <<>>
    /\ popped_messages = <<>>
    /\ summary_prompt = <<>>
    /\ turn_tools = <<>>
    /\ turns = 0
    /\ inputs_read = 0
    /\ model_calls = 0
    /\ summary_calls = 0
    /\ tool_calls = 0
    /\ logged = <<>>
    /\ mi_pc = "new"
    /\ model_provider \in Providers
    /\ client = "none"
    /\ clients_created = 0
    /\ mi_error = "none"
    /\ mi_calls = 0
    /\ call_messages = <<>>
    /\ call_stream = FALSE
    /\ call_returned = <<>>
    /\ client_returned = <<>>
    /\ client_chats = <<>>
    /\ ServicesIdle

\* ModelInterface(): __init__ with _setup_client
ConstructModel ==
    /\ mi_pc = "new"
    /\ mi_error' = SetupClient(model_provider)[1]
    /\ client' = SetupClient(model_provider)[2]
    /\ clients_created' = IF client' = "none" THEN 0 ELSE 1
    /\ mi_pc' = IF mi_error' = "none" THEN "ready" ELSE "failed"
    /\ UNCHANGED <<agentVars, serviceVars, model_provider, mi_calls, call_messages,
                   call_stream, call_returned, client_returned, client_chats>>

\* what every chat_completion call does first
ChatBegins(msgs, stream) ==
    /\ mi_pc = "ready"
    /\ mi_calls < MaxCalls
    /\ mi_calls' = mi_calls + 1
    /\ call_messages' = msgs
    /\ call_stream' = stream
    /\ UNCHANGED <<agentVars, serviceVars, mi_pc, model_provider, client, clients_created>>

\* chat_completion raises before it reaches the client
ChatRejected(msgs, stream) ==
    /\ ChatBegins(msgs, stream)
    /\ ChatDispatch(model_provider, stream) # "none"
    /\ mi_error' = ChatDispatch(model_provider, stream)
    /\ UNCHANGED <<call_returned, client_returned, client_chats>>

\* chat_completion calls the client and returns what it returns
ChatReturns(msgs, stream, reply) ==
    /\ ChatBegins(msgs, stream)
    /\ ChatDispatch(model_provider, stream) = "none"
    /\ client_chats' = Append(client_chats, ClientCall(client, msgs))
    /\ client_returned' = reply
    /\ call_returned' = reply
    /\ mi_error' = "none"

\* chat_completion calls the client, whose exception it lets through
ChatClientRaises(msgs, stream) ==
    /\ ChatBegins(msgs, stream)
    /\ ChatDispatch(model_provider, stream) = "none"
    /\ client_chats' = Append(client_chats, ClientCall(client, msgs))
    /\ mi_error' = "ConnectionError"
    /\ UNCHANGED <<call_returned, client_returned>>

NextModel ==
    \/ ConstructModel
    \/ \E msgs \in ModelMessages, stream \in BOOLEAN : ChatRejected(msgs, stream)
    \/ \E msgs \in ModelMessages, stream \in BOOLEAN, reply \in ClientReplies :
           ChatReturns(msgs, stream, reply)
    \/ \E msgs \in ModelMessages, stream \in BOOLEAN : ChatClientRaises(msgs, stream)

SpecModel == InitModel /\ [][NextModel]_vars

(***************************************************************************)
(* The reply parser of chat_completion on its own: a reply is drawn, then  *)
(* lines 95-107 of agent.py are applied to it.                             *)
(***************************************************************************)
InitParse ==
    /\ pc = "parsing"
    /\ outcome = "none"
    /\ max_short_memory = MaxW
    /\ disable_long_memory = TRUE
    /\ disable_short_memory = FALSE
    /\ short_memory = <<>>
    /\ long_memory = <<>>
    /\ transcript_exists = FALSE
    /\ transcript_content = <<>>
    /\ raw_input = <<>>
    /\ user_input = <<>>
    /\ messages = <<>>
    /\ response \in ParseReplies
    /\ match = <<>>
    /\ result = <<>>
    /\ popped_messages = <<>>
    /\ summary_prompt = <<>>
    /\ turn_tools = <<>>
    /\ turns = 0
    /\ inputs_read = 0
    /\ model_calls = 0
    /\ summary_calls = 0
    /\ tool_calls = 0
    /\ logged = <<>>
    /\ ModelReady
    /\ ServicesIdle

\* the pattern is matched against the stripped reply and result is computed
ParseReply ==
    /\ pc = "parsing"
    /\ pc' = "parsed"
    /\ match' = ReplyMatch(response)
    /\ turn_tools' = ToolInvocations(response)
    /\ tool_calls' = tool_calls + Len(ToolInvocations(response))
    /\ result' = ChatResult(response)
    /\ UNCHANGED <<outcome, max_short_memory, disable_long_memory,
                   disable_short_memory, short_memory, long_memory,
                   transcript_exists, transcript_content, raw_input,
                   user_input, messages, response, popped_messages,
                   summary_prompt, turns, inputs_read, model_calls,
                   summary_calls, logged, modelVars, serviceVars>>

NextParse == ParseReply

SpecParse == InitParse /\ [][NextParse]_vars

(***************************************************************************)
(* Properties.                                                             *)
(***************************************************************************)
TypeOK ==
    /\ pc \in {"constructing", "parsing", "parsed", "constructed", "awaiting",
               "closed", "crashed", "prompting", "dispatching",
               "tool_executing", "answering", "memory_write", "summarizing",
               "logging"}
    /\ mi_pc \in {"new", "ready", "failed"}
    /\ ws_pc \in {"starting", "serving"}
    /\ ws_status \in {0, 200, 400, 404, 500}
    /\ loads <= load_attempts
    /\ ws_served <= MaxRequests
    /\ Len(px_log) <= MaxRequests
    /\ mi_error \in {"none", "ValueError", "NotImplementedError", "ConnectionError"}
    /\ client \in {"none", "anythingllm", "lmstudio", "nexa"}
    /\ mi_calls \in 0..MaxCalls
    /\ Len(client_chats) <= mi_calls
    /\ outcome \in {"none", "exit", "model_raised", "evict_raised", "answered",
                    "summarized", "summary_raised"}
    /\ turns \in 0..MaxTurns
    /\ Len(short_memory) <= MaxW + 2

\* C1: for every configured W >= 0 the window holds at most W messages
\* whenever _handle_memory has run, whatever the turns were.
C1_WindowBounded ==
    max_short_memory >= 0 => Len(short_memory) <= max_short_memory

\* a turn has evicted and left the window full, with W >= 1
C1_Witness ==
    /\ max_short_memory >= 1
    /\ outcome \in {"answered", "summarized"}
    /\ popped_messages # <<>>
    /\ Len(short_memory) = max_short_memory

\* C2: eviction is FIFO: the entries popped by one _handle_memory are, in
\* insertion order, a prefix of the old window followed by the two new
\* messages, and the window keeps the rest in order, so that a message is
\* never evicted while an older one stays.
C2_FifoEviction ==
    [][(inputs_read' = inputs_read + 1
        /\ outcome' \in {"answered", "summarized", "summary_raised", "evict_raised"})
       => popped_messages' \o short_memory' =
              short_memory \o <<Msg(RoleUser, user_input'),
                                Msg(RoleAssistant, result')>>]_vars

\* one turn evicted an old message and the new user message, and kept the answer
C2_Witness ==
    /\ outcome \in {"answered", "summarized"}
    /\ turns = 2
    /\ Len(popped_messages) = 2
    /\ popped_messages[1].role = RoleAssistant
    /\ popped_messages[2].role = RoleUser
    /\ Len(short_memory) = 1

\* C3: with DISABLE_LONG_MEMORY true the summary stays empty and no
\* summarization call is made, whatever is evicted.
C3_DisabledSummaryUntouched ==
    disable_long_memory => (long_memory = <<>> /\ summary_calls = 0)

\* long memory is disabled and two turns have both evicted messages
C3_Witness ==
    /\ disable_long_memory
    /\ turns = 2
    /\ Len(popped_messages) = 2
    /\ max_short_memory = 0

\* C4: when the trimmed reply has the form Name(arg) and Name is registered,
\* the answer of the turn is the trimmed string the tool returns for arg and
\* not the model text; the reply "Echo(hello)" gives the answer "Echo: hello".
C4_ToolAnswer ==
    LET s == Strip(response) IN
    /\ (ToolCallMatches(s) /\ MatchGroups(s)[1] \in tools)
           => /\ result = Strip(ToolRun(MatchGroups(s)[1], MatchGroups(s)[2]))
              /\ result # Strip(response)
    /\ response = <<"E","c","h","o","(","h","e","l","l","o",")">>
           => result = <<"E","c","h","o",":"," ","h","e","l","l","o">>

\* a logged turn whose model reply was "Echo(hello)"
C4_Witness ==
    /\ outcome \in {"answered", "summarized"}
    /\ response = <<"E","c","h","o","(","h","e","l","l","o",")">>
    /\ tool_calls >= 1

\* C5: when the reply matches the tool grammar but the name is not in the
\* registry, no tool runs and the answer, the message stored in the window
\* and the transcript text are the original reply.
C5_UnregisteredVerbatim ==
    LET s == Strip(response)
        block == TranscriptBlock(user_input, response)
        n == Len(transcript_content)
    IN  (/\ outcome \in {"answered", "summarized"}
         /\ ToolCallMatches(s)
         /\ MatchGroups(s)[1] \notin tools)
        => /\ turn_tools = <<>>
           /\ result = response
           /\ max_short_memory >= 1
                  => short_memory[Len(short_memory)] = Msg(RoleAssistant, response)
           /\ n >= Len(block)
           /\ SubSeq(transcript_content, n - Len(block) + 1, n) = block

\* C6: a session whose first input is "exit" goes to the closed state with
\* no model call, no tool call, empty window and summary, and no transcript
\* file left.
C6_ImmediateExit ==
    [][(inputs_read = 0 /\ inputs_read' = 1 /\ raw_input' = StrExit)
       => /\ pc' = "closed"
          /\ model_calls' = 0
          /\ summary_calls' = 0
          /\ tool_calls' = 0
          /\ short_memory' = <<>>
          /\ long_memory' = <<>>
          /\ ~transcript_exists']_vars

\* the session has ended on "exit" as its first input
C6_Witness ==
    /\ pc = "closed"
    /\ inputs_read = 1
    /\ raw_input = StrExit

\* C7: with W = 1, after two consecutive turns the window holds exactly the
\* assistant message of the second turn; the user message of that turn is
\* the last entry evicted.
C7_OddWindow ==
    (max_short_memory = 1 /\ turns = 2 /\ outcome \in {"answered", "summarized"})
    => /\ short_memory = <<Msg(RoleAssistant, result)>>
       /\ popped_messages # <<>>
       /\ popped_messages[Len(popped_messages)] = Msg(RoleUser, user_input)

\* two turns have completed with W = 1
C7_Witness ==
    /\ max_short_memory = 1
    /\ turns = 2
    /\ outcome \in {"answered", "summarized"}
    /\ Len(short_memory) = 1

\* C8: an iteration invokes at most one tool handler, and invokes one only
\* when the trimmed reply matches the tool grammar and its name is
\* registered; a reply with several call-like fragments gives one invocation.
C8_OneToolPerTurn ==
    [][inputs_read' = inputs_read + 1
       => /\ tool_calls' - tool_calls = Len(turn_tools')
             \/ outcome' = "exit"
          /\ tool_calls' <= tool_calls + 1
          /\ tool_calls' >= tool_calls
          /\ tool_calls' = tool_calls + 1
                => /\ outcome' \notin {"exit", "model_raised"}
                   /\ ToolCallMatches(Strip(response'))
                   /\ MatchGroups(Strip(response'))[1] \in tools
                   /\ turn_tools' = <<MatchGroups(Strip(response'))>>]_vars

\* a logged turn whose reply held two call-like fragments ran the tool
C8_Witness ==
    /\ outcome \in {"answered", "summarized"}
    /\ response = <<"E","c","h","o","(","a",")"," ","E","c","h","o","(","b",")">>
    /\ Len(turn_tools) = 1
    /\ tool_calls >= 1

\* C9: the loop goes to the closed state exactly when the trimmed,
\* lower-cased input is "exit" or "quit"; every other input starts a turn
\* with a model call; once closed, no input is read.
C9_ExitTokens ==
    [][/\ inputs_read' # inputs_read
          => /\ inputs_read' = inputs_read + 1
             /\ pc = "awaiting"
             /\ IF Lower(Strip(raw_input')) \in {StrExit, StrQuit}
                THEN pc' = "closed" /\ model_calls' = model_calls
                ELSE pc' # "closed" /\ model_calls' >= model_calls + 1
       /\ (pc # "closed" /\ pc' = "closed") => inputs_read' = inputs_read + 1
       /\ pc = "closed" => (pc' = "closed" /\ inputs_read' = inputs_read)]_vars

\* a session with a turn on the empty input and one on an input that only
\* contains "quit", closed by a padded, capitalised "Quit"
C9_Witness ==
    /\ pc = "closed"
    /\ turns = 2
    /\ raw_input = <<" ","Q","u","i","t","\t">>
    /\ Len(short_memory) = 2
    /\ short_memory[1] = Msg(RoleUser, <<"q","u","i","t"," ","i","t">>)

\* C10: the prompt of a turn is, in this order, the system identity, the
\* long-term summary iff long memory is enabled and the summary is not
\* empty, the window block (marker, then every window message in order) iff
\* the window is not empty, and the new user message last.
C10_PromptOrder ==
    [][(inputs_read' = inputs_read + 1 /\ outcome' # "exit")
       => LET hasLong == ~disable_long_memory /\ long_memory # <<>>
              hasWindow == short_memory # <<>>
              base == IF hasLong THEN 2 ELSE 1
              size == base + (IF hasWindow THEN 1 + Len(short_memory) ELSE 0) + 1
          IN  /\ Len(messages') = size
              /\ messages'[1] = Msg(RoleSystem, core_identity)
              /\ hasLong
                    => messages'[2] = Msg(RoleSystem, LongTermPrefix \o long_memory)
              /\ hasWindow
                    => /\ messages'[base + 1] = Msg(RoleSystem, RecentMarker)
                       /\ \A i \in 1..Len(short_memory) :
                              messages'[base + 1 + i] =
                                  Msg(RoleSystem,
                                      Capitalize(short_memory[i].role)
                                      \o ColonSpace \o short_memory[i].content)
              /\ messages'[size] = Msg(RoleUser, user_input')]_vars

\* a prompt that holds all four parts
C10_Witness ==
    /\ outcome \in {"answered", "summarized"}
    /\ Len(messages) >= 5
    /\ messages[2].content = LongTermPrefix \o <<"S","1">>
    /\ messages[3].content = RecentMarker
    /\ messages[Len(messages)].role = RoleUser

\* C11: a reply is parsed as a tool invocation iff, after trimming, it is a
\* maximal leading run of word characters, then "(", then any text (empty,
\* with newlines or with parentheses), then ")" as its last character; the
\* name is the run and the argument is the text between the first "(" and
\* the last ")".  "Echo(test)" gives Echo and test, "Echo()" gives Echo and
\* the empty argument.
C11_ToolGrammar ==
    pc = "parsed" =>
        LET s == Strip(response)
            run == CHOOSE n \in 0..Len(s) :
                       /\ \A k \in 1..n : s[k] \in WordChars
                       /\ n = Len(s) \/ s[n + 1] \notin WordChars
            opens == {i \in 1..Len(s) : s[i] = "("}
            closes == {i \in 1..Len(s) : s[i] = ")"}
            firstOpen == CHOOSE i \in opens : \A j \in opens : i <= j
            lastClose == CHOOSE i \in closes : \A j \in closes : j <= i
            isCall == /\ run >= 1
                      /\ Len(s) >= run + 2
                      /\ s[run + 1] = "("
                      /\ s[Len(s)] = ")"
        IN  /\ (match # <<>>) <=> isCall
            /\ isCall => match = <<SubSeq(s, 1, run),
                                   SubSeq(s, firstOpen + 1, lastClose - 1)>>
            /\ response = <<"E","c","h","o","(","t","e","s","t",")">>
                  => match = <<EchoName, <<"t","e","s","t">>>>
            /\ response = <<"E","c","h","o","(",")">>
                  => match = <<EchoName, <<>>>>

\* a padded reply whose argument is a newline has been parsed as a call
C11_Witness ==
    /\ pc = "parsed"
    /\ response = <<" ","a","(","\n",")">>
    /\ match = << <<"a">>, <<"\n">> >>

\* C12: when the reply does not match the tool grammar, the answer is the
\* trimmed reply, and after the turn (W >= 1) the last window entry is the
\* assistant message holding that answer, preceded (W >= 2) by the user
\* message of the same turn.
C12_DirectAnswer ==
    (outcome \in {"answered", "summarized"} /\ match = <<>>)
    => /\ result = Strip(response)
       /\ max_short_memory >= 1
             => /\ short_memory # <<>>
                /\ short_memory[Len(short_memory)] = Msg(RoleAssistant, result)
       /\ max_short_memory >= 2
             => /\ Len(short_memory) >= 2
                /\ short_memory[Len(short_memory) - 1] = Msg(RoleUser, user_input)

\* a logged turn on a padded plain-text reply, with room for the pair
C12_Witness ==
    /\ outcome \in {"answered", "summarized"}
    /\ response = <<" ","o","k","\n">>
    /\ match = <<>>
    /\ max_short_memory >= 2

\* C13: a failure of the primary model call (endpoint unreachable, non-2xx
\* status, payload without the completion field) never ends the session:
\* the turn ends with the error text as its answer, logged, and the loop
\* awaits the next input.
C13_FailureKeepsSession ==
    [][(/\ inputs_read' = inputs_read + 1
        /\ outcome' \notin {"exit", "evict_raised", "summary_raised"}
        /\ outcome' = "model_raised" \/ response' \in ErrorTexts)
       => /\ pc' = "awaiting"
          /\ turns' = turns + 1
          /\ result' \in ErrorTexts
          /\ logged' = Append(logged, <<user_input', result'>>)]_vars

\* C14: at the end of every session the transcript is either deleted, which
\* happens iff no turn completed, or is the header, one block per completed
\* turn in turn order, and the footer; a block once written is never
\* modified or removed by a later turn.
C14_TranscriptAtEnd ==
    /\ [](pc \in {"closed", "crashed"}
            => IF turns = 0
               THEN ~transcript_exists
               ELSE /\ transcript_exists
                    /\ transcript_content =
                           file_header \o TranscriptOf(logged) \o file_footer)
    /\ [][(pc = "awaiting" /\ pc' = "awaiting")
            => /\ transcript_exists'
               /\ Len(transcript_content') >= Len(transcript_content)
               /\ SubSeq(transcript_content', 1, Len(transcript_content))
                      = transcript_content]_vars

\* C15: constructing a ModelInterface raises ValueError when MODEL_PROVIDER is
\* unset, empty or not one of anythingllm, lmstudio, nexa in any letter case,
\* and creates no client; for a recognized value exactly one client is
\* created, the one of the matching provider.
C15_ProviderSelection ==
    mi_pc # "new"
        => LET name == Lower(model_provider.value)
               recognized == /\ model_provider.set
                             /\ name \in {StrAnythingLLM, StrLMStudio, StrNexa}
           IN  IF recognized
               THEN /\ mi_pc = "ready"
                    /\ clients_created = 1
                    /\ (client = "anythingllm") = (name = StrAnythingLLM)
                    /\ (client = "lmstudio") = (name = StrLMStudio)
                    /\ (client = "nexa") = (name = StrNexa)
               ELSE /\ mi_pc = "failed"
                    /\ mi_error = "ValueError"
                    /\ clients_created = 0
                    /\ client = "none"

\* a provider written in another letter case got its client
C15_Witness ==
    /\ mi_pc = "ready"
    /\ model_provider.value # Lower(model_provider.value)
    /\ client = "lmstudio"

\* C16: a chat_completion call asking for streaming raises
\* NotImplementedError whatever the provider, and the client is not called.
C16_StreamingRejected ==
    [][(mi_calls' = mi_calls + 1 /\ call_stream')
       => /\ mi_error' = "NotImplementedError"
          /\ client_chats' = client_chats
          /\ call_returned' = call_returned]_vars

\* a streaming call on a nexa interface has raised NotImplementedError
C16_Witness ==
    /\ mi_calls >= 1
    /\ call_stream
    /\ client = "nexa"
    /\ mi_error = "NotImplementedError"

C18_SummaryOverwrittenIffEvicted ==
    [][(/\ inputs_read' = inputs_read + 1
        /\ outcome' \in {"answered", "summarized", "summary_raised", "evict_raised"})
       => /\ (outcome' = "summarized")
                 <=> (popped_messages' # <<>> /\ ~disable_long_memory)
          /\ outcome' = "summarized"
                 => /\ summary_calls' = summary_calls + 1
                    /\ long_memory' \in
                           {Strip(s) : s \in SummaryReplies \cup ErrorTexts}
          /\ outcome' # "summarized" => long_memory' = long_memory]_vars

\* C19, as stated: with DISABLE_SHORT_MEMORY true the turn appends both
\* messages and evicts as usual, and makes no summarization call.
C19_ShortDisabledSkipsSummary ==
    [][(/\ inputs_read' = inputs_read + 1
        /\ disable_short_memory
        /\ outcome' \in {"answered", "summarized", "summary_raised", "evict_raised"})
       => /\ popped_messages' \o short_memory' =
                 short_memory \o <<Msg(RoleUser, user_input'),
                                   Msg(RoleAssistant, result')>>
          /\ summary_calls' = summary_calls]_vars

\* C19, amended: with DISABLE_SHORT_MEMORY true the turn appends both
\* messages and evicts from the front down to W as usual, and the
\* summarization call is made exactly when messages were evicted, long-term
\* memory is enabled and W >= 0 (with W < 0 the eviction loop raises first).
C19_ShortDisabledNoEffect ==
    [][(/\ inputs_read' = inputs_read + 1
        /\ disable_short_memory
        /\ outcome' \in {"answered", "summarized", "summary_raised", "evict_raised"})
       => /\ popped_messages' \o short_memory' =
                 short_memory \o <<Msg(RoleUser, user_input'),
                                   Msg(RoleAssistant, result')>>
          /\ max_short_memory >= 0
                 => Len(short_memory') =
                        IF Len(short_memory) + 2 <= max_short_memory
                        THEN Len(short_memory) + 2
                        ELSE max_short_memory
          /\ (summary_calls' = summary_calls + 1)
                 <=> /\ popped_messages' # <<>>
                     /\ ~disable_long_memory
                     /\ max_short_memory >= 0
          /\ summary_calls' \in {summary_calls, summary_calls + 1}]_vars

\* short memory is disabled, long memory is enabled, and a turn that evicted
\* messages has had them summarized
C19_Witness ==
    /\ disable_short_memory
    /\ ~disable_long_memory
    /\ outcome = "summarized"
    /\ popped_messages # <<>>
    /\ summary_calls >= 1
    /\ long_memory # <<>>

\* C20: every iteration that is not an exit makes exactly one primary model
\* call and after it at most one summarization call, whose request holds the
\* answer of the primary call: never more than two calls, and a failed call
\* is not repeated.
C20_AtMostTwoCalls ==
    [][(inputs_read' = inputs_read + 1 /\ outcome' # "exit")
       => LET summarizing == summary_calls' - summary_calls
              primary == (model_calls' - model_calls) - summarizing
          IN  /\ primary = 1
              /\ summarizing \in {0, 1}
              /\ outcome' = "model_raised" => summarizing = 0
              /\ summarizing = 1
                     => /\ outcome' \in {"summarized", "summary_raised"}
                        /\ summary_prompt' =
                               SummaryPrompt(popped_messages', short_memory')
                        /\ LET handled == popped_messages' \o short_memory'
                           IN  handled[Len(handled)] =
                                   Msg(RoleAssistant, result')]_vars

\* two turns have each made the primary call and the summarization call
C20_Witness ==
    /\ outcome = "summarized"
    /\ turns = 2
    /\ summary_calls = 2
    /\ model_calls = 4

\* C21: when the summarization call fails, by raising or by returning the
\* client's error text, the summary keeps the value it had before the turn.
\* Stated for the sessions whose every model call fails.
C21_FailedSummaryKeepsSummary ==
    [][(summary_calls' = summary_calls + 1) => long_memory' = long_memory]_vars

\* C22: when the summarization call raises, the exception leaves the
\* interaction loop: the window already holds what the eviction left of the
\* old window and the turn's two messages, the summary is untouched, and the
\* turn's answer is neither counted as a turn nor written to the transcript.
C22_SummaryRaisePropagates ==
    [][(inputs_read' = inputs_read + 1 /\ outcome' = "summary_raised")
       => /\ pc' = "crashed"
          /\ popped_messages' # <<>>
          /\ popped_messages' \o short_memory' =
                 short_memory \o <<Msg(RoleUser, user_input'),
                                   Msg(RoleAssistant, result')>>
          /\ Len(short_memory') = max_short_memory
          /\ long_memory' = long_memory
          /\ turns' = turns
          /\ logged' = logged
          /\ transcript_exists' = transcript_exists
          /\ transcript_content' = transcript_content]_vars

\* the summarization call of the second turn raised with the turn's answer
\* already in the window and only the first turn in the transcript
C22_Witness ==
    /\ outcome = "summary_raised"
    /\ pc = "crashed"
    /\ turns = 1
    /\ Len(logged) = 1
    /\ short_memory # <<>>
    /\ short_memory[Len(short_memory)] = Msg(RoleAssistant, result)
    /\ transcript_content = file_header \o TranscriptOf(logged)

\* C23: the summarization request is built after the window update: its one
\* system message holds the summary as it was before the turn, then the
\* messages evicted in this turn in eviction order, then the window as it
\* stands after the eviction.
C23_SummaryRequestContents ==
    [][(summary_calls' = summary_calls + 1)
       => /\ popped_messages' \o short_memory' =
                 short_memory \o <<Msg(RoleUser, user_input'),
                                   Msg(RoleAssistant, result')>>
          /\ Len(summary_prompt') = 1
          /\ summary_prompt'[1].role = RoleSystem
          /\ summary_prompt'[1].content =
                 SummaryHead \o long_memory \o BlankLine
                 \o SummaryDropped \o Flatten(popped_messages') \o BlankLine
                 \o SummaryCurrent \o Flatten(short_memory') \o BlankLine
                 \o SummaryTail]_vars

\* a second turn was summarized with a summary from the first turn, and its
\* window differs from the one before the turn
C23_Witness ==
    /\ outcome = "summarized"
    /\ summary_calls = 2
    /\ max_short_memory = 1
    /\ Len(popped_messages) = 2
    /\ Len(short_memory) = 1
    /\ short_memory[1] = Msg(RoleAssistant, result)
    /\ summary_prompt # <<>>

\* the order in which run() and chat_completion pass from one statement to
\* the next
StepOrder ==
    { <<"constructed", "awaiting">>, <<"awaiting", "closed">>,
      <<"awaiting", "prompting">>, <<"prompting", "dispatching">>,
      <<"dispatching", "parsing">>, <<"dispatching", "crashed">>,
      <<"parsing", "tool_executing">>, <<"parsing", "answering">>,
      <<"tool_executing", "memory_write">>, <<"answering", "memory_write">>,
      <<"memory_write", "summarizing">>, <<"memory_write", "logging">>,
      <<"memory_write", "crashed">>, <<"summarizing", "logging">>,
      <<"summarizing", "crashed">>, <<"logging", "awaiting">> }

\* C24: turns are sequential and follow one step order: the prompt is built
\* from the memory the previous turn left, then come the primary model call,
\* the parsing, the tool run if any, the memory write (with its
\* summarization) and the transcript append; an input is read only when every
\* earlier turn has been appended to the transcript.
C24_StepOrder ==
    [][/\ <<pc, pc'>> \in StepOrder
       /\ inputs_read' # inputs_read
              => /\ pc = "awaiting"
                 /\ Len(logged) = turns
                 /\ transcript_content = file_header \o TranscriptOf(logged)
       /\ messages' # messages
              => /\ pc = "prompting"
                 /\ messages' = BuildPrompt(user_input)
                 /\ Len(short_memory) <= 2 * turns
       /\ response' # response => pc = "dispatching"
       /\ model_calls' # model_calls => pc \in {"dispatching", "summarizing"}
       /\ match' # match => pc = "parsing"
       /\ tool_calls' # tool_calls => pc = "tool_executing"
       /\ result' # result => pc \in {"tool_executing", "answering"}
       /\ short_memory' # short_memory => pc = "memory_write"
       /\ long_memory' # long_memory => pc = "summarizing"
       /\ logged' # logged
              => /\ pc = "logging"
                 /\ logged' = Append(logged, <<user_input, result>>)
                 /\ transcript_content' =
                        transcript_content \o TranscriptBlock(user_input, result)
       /\ turns' # turns => logged' # logged]_vars

\* a second turn ran a tool, wrote the memory, had the evicted messages
\* summarized and is about to be appended to the transcript
C24_Witness ==
    /\ pc = "logging"
    /\ turns = 1
    /\ inputs_read = 2
    /\ turn_tools # <<>>
    /\ summary_calls = 2
    /\ short_memory # <<>>
    /\ short_memory[Len(short_memory)] = Msg(RoleAssistant, result)

RECURSIVE History(_)
\* the full history u1, a1, ..., un, an of the turns appended to the transcript
History(log) ==
    IF log = <<>> THEN <<>>
    ELSE <<Msg(RoleUser, log[1][1]), Msg(RoleAssistant, log[1][2])>>
             \o History(Tail(log))

\* C25: with W >= 0, after n completed turns the window is the last
\* min(W, 2n) elements of the full history in their order, and the memory
\* write of a turn evicts exactly max(0, previous length + 2 - W) messages.
C25_WindowIsHistorySuffix ==
    /\ []((pc \in {"awaiting", "closed"} /\ max_short_memory >= 0)
            => LET history == History(logged)
                   n == IF max_short_memory <= 2 * turns
                        THEN max_short_memory
                        ELSE 2 * turns
               IN  /\ Len(history) = 2 * turns
                   /\ short_memory =
                          SubSeq(history, Len(history) - n + 1, Len(history)))
    /\ [][(pc = "memory_write" /\ max_short_memory >= 0)
            => Len(popped_messages') =
                   IF Len(short_memory) + 2 > max_short_memory
                   THEN Len(short_memory) + 2 - max_short_memory
                   ELSE 0]_vars

\* after two turns a window of three begins in the middle of the first turn
C25_Witness ==
    /\ pc = "awaiting"
    /\ turns = 2
    /\ max_short_memory = 3
    /\ Len(short_memory) = 3
    /\ short_memory[1] = Msg(RoleAssistant, logged[1][2])
    /\ short_memory[2] = Msg(RoleUser, logged[2][1])
    /\ Len(popped_messages) = 1

\* C26: for every integer SHORT_MEMORY_SIZE W, zero and negative values
\* included, the eviction loop ends without an error and leaves the window
\* at length max(0, min(W, length before eviction)).
C26_EvictionTotal ==
    [][pc = "memory_write"
       => LET before == Len(short_memory) + 2
              least == IF max_short_memory < before
                       THEN max_short_memory
                       ELSE before
          IN  /\ pc' # "crashed"
              /\ Len(short_memory') = IF least > 0 THEN least ELSE 0]_vars

\* C27: when the upstream server answers /chat's request with a status other
\* than 200 the client receives that status; 503 is answered only when the
\* request failed at connection level, and 500 only for other exceptions.
C27_UpstreamStatusPassedOn ==
    \A i \in 1..Len(px_log) :
        LET upstream == px_log[i].upstream
            status == px_log[i].status
        IN  /\ (upstream.kind = "answered" /\ upstream.status # 200)
                   => status = upstream.status
            /\ status = 503
                   => upstream.kind \in {"connection_refused", "timeout"}
            /\ status = 500
                   => /\ upstream.kind = "answered"
                      /\ upstream.status = 200
                      /\ upstream.body \in {"not_json", "no_choices"}

\* C28: an HTTP error raised on purpose in a handler of the transcription
\* service reaches the client with its own status: /transcribe-blob answers
\* 400 when neither wavBlob nor blob is supplied (the model being loaded),
\* /transcribe-file-path answers 404 when the path does not exist, and 500
\* is answered for other failures only.
C28_DeliberateStatusReachesClient ==
    LET no_audio == /\ ws_request.endpoint = "transcribe-blob"
                    /\ ~ws_request.has_audio
                    /\ whisper_app # 0
        no_file == /\ ws_request.endpoint = "transcribe-file-path"
                   /\ ~ws_request.path_exists
    IN  /\ no_audio => ws_status = 400
        /\ no_file => ws_status = 404
        /\ ws_status = 500 => ~no_audio /\ ~no_file

\* C29: the model is loaded at most once: once the global is set it is never
\* replaced or reset and no later call loads or tries to; /health reports
\* model_loaded exactly when the global is set; a failed load at startup
\* leaves the global unset, and the next request that initializes the model
\* tries the load again.
C29_ModelLoadedOnce ==
    /\ [](/\ loads <= 1
          /\ (whisper_app # 0) <=> (loads = 1))
    /\ [][whisper_app # 0
            => /\ whisper_app' = whisper_app
               /\ loads' = loads
               /\ load_attempts' = load_attempts]_vars
    /\ [][health_checks' # health_checks
            => health_reported' = (whisper_app # 0)]_vars
    /\ [][(ws_pc = "starting" /\ ws_pc' = "serving")
            => /\ load_attempts' = 1
               /\ loads' = 0 => whisper_app' = 0]_vars
    /\ [][(/\ whisper_app = 0
           /\ ws_served' = ws_served + 1
           /\ \/ ws_request'.endpoint \in {"transcribe", "transcribe-blob"}
              \/ /\ ws_request'.endpoint = "transcribe-file-path"
                 /\ ws_request'.path_exists)
            => load_attempts' = load_attempts + 1]_vars

\* the load failed at startup, the first request loaded the model, and
\* /health then reported it loaded
C29_Witness ==
    /\ ws_pc = "serving"
    /\ load_attempts = 2
    /\ loads = 1
    /\ whisper_app = 2
    /\ ws_served = 2
    /\ ws_request.endpoint = "health"
    /\ health_reported

\* C30: every temporary file that convert_audio_to_wav_bytes,
\* load_audio_from_bytes and wav_file_to_blob_data create is deleted when the
\* function returns or raises, whatever FFmpeg does: no temporary file is on
\* disk between two requests.
C30_NoTemporaryFileLeft ==
    tmp_files = {}

====
